---------------------------- MODULE Spec2Model ----------------------------
(***************************************************************************)
(* Retirement calculator: tax engine, take-home converter, withdrawal      *)
(* solver and Monte Carlo run of Home.py / retirement_calc.py.             *)
(*                                                                         *)
(* Arithmetic.  The program computes in binary floating point; the model   *)
(* computes the same expressions exactly, in fixed point:                  *)
(*   - an amount of money (withdrawal, income, benefit, target) is an      *)
(*     integer number of 1/unit dollars;                                   *)
(*   - a taxable amount (the product of an amount and 0.5 or 0.85) is an   *)
(*     integer number of 1/FracDen of an amount unit;                      *)
(*   - a tax or an after-tax amount (the product of a taxable amount and   *)
(*     a bracket rate in percent) is an integer number of 1/TaxDen of an   *)
(*     amount unit;                                                        *)
(*   - a monthly amount (an after-tax amount / 12) is an integer number    *)
(*     of 1/MonthlyDen of an amount unit.                                  *)
(* Inputs are drawn from sets on which every division the code makes is    *)
(* exact in these units, so no rounding is introduced by the model.        *)
(***************************************************************************)
EXTENDS Integers, Sequences, FiniteSets

VARIABLES
    unit,     \* amount units per dollar (the fixed-point resolution of a run)
    probe,    \* one application of a pure function of the tax engine:
              \* [fn, a, b, ra, rb, done]: arguments a <= b, results ra, rb
    call,     \* the arguments of calculate_annual_withdrawal_for_takehome
    sol,      \* its locals: [pc, low, high, best_withdrawal, best_diff, result]
    prof,     \* the arguments of run_retirement_analysis (the profile)
    rng,      \* numpy's global random source: [stream, pos, fresh]
    run,      \* the locals of run_retirement_analysis, and where it stands
    results,  \* what the calls of run_retirement_analysis returned, in order
    table,    \* the Withdrawal column of projection_data, and the result it is of
    search    \* the locals of find_maximum_takehome, and where it stands

solverVars == <<call, sol>>
mainVars == <<prof, rng, run, results>>
pageVars == <<table, search>>
vars == <<unit, probe, call, sol, prof, rng, run, results, table, search>>

Min(a, b) == IF a <= b THEN a ELSE b
Max(a, b) == IF a >= b THEN a ELSE b
Abs(a) == IF a >= 0 THEN a ELSE -a

\* d dollars as an amount
USD(d) == d * unit

\* float('inf')
inf == 2147483647

\* denominators of the fixed-point results
FracDen == 40
RateDen == 100
TaxDen == FracDen * RateDen
MonthlyDen == 12 * TaxDen

\* 0.5 and 0.85 as numerators over FracDen
Half == 20
Pct85 == 34

(***************************************************************************)
(* Tax engine                                                              *)
(***************************************************************************)

\* calculate_taxable_ss_portion returning additional_taxable alone above 34,000
calculate_taxable_ss_portion_NoBase(ss_benefit, other_income) ==
    LET combined_income == other_income * FracDen + ss_benefit * Half
        t25000 == USD(25000) * FracDen
        t34000 == USD(34000) * FracDen
    IN  IF combined_income <= t25000 THEN 0
        ELSE IF combined_income <= t34000
        THEN Min(ss_benefit * Half, ((combined_income - t25000) * Half) \div FracDen)
        ELSE LET base_taxable ==
                     Min(ss_benefit * Half, ((t34000 - t25000) * Half) \div FracDen)
             IN  Min(ss_benefit * Pct85 - base_taxable,
                     ((combined_income - t34000) * Pct85) \div FracDen)

\* calculate_taxable_ss_portion: the result is a taxable amount (FracDen)
calculate_taxable_ss_portion(ss_benefit, other_income) ==
    LET combined_income == other_income * FracDen + ss_benefit * Half
        t25000 == USD(25000) * FracDen
        t34000 == USD(34000) * FracDen
    IN  IF combined_income <= t25000 THEN 0
        ELSE IF combined_income <= t34000
        THEN Min(ss_benefit * Half, ((combined_income - t25000) * Half) \div FracDen)
        ELSE LET base_taxable ==
                     Min(ss_benefit * Half, ((t34000 - t25000) * Half) \div FracDen)
                 additional_taxable ==
                     Min(ss_benefit * Pct85 - base_taxable,
                         ((combined_income - t34000) * Pct85) \div FracDen)
             IN  base_taxable + additional_taxable

\* the bracket table: upper bound in dollars, marginal rate in percent
brackets ==
    << [limit |-> 11600,  rate |-> 10],
       [limit |-> 47150,  rate |-> 12],
       [limit |-> 100525, rate |-> 22],
       [limit |-> 191950, rate |-> 24],
       [limit |-> 243725, rate |-> 32],
       [limit |-> 609350, rate |-> 35],
       [limit |-> inf,    rate |-> 37] >>

\* a bracket bound as a taxable amount
BracketLimit(i) ==
    IF brackets[i].limit = inf THEN inf ELSE USD(brackets[i].limit) * FracDen

\* BracketLoop with prev_limit never advanced (the assignment prev_limit = limit lost)
RECURSIVE BracketLoop_PrevLimitStuck(_, _, _, _)
BracketLoop_PrevLimitStuck(i, tax, prev_limit, total_taxable_income) ==
    IF i > Len(brackets) THEN tax
    ELSE LET limit == BracketLimit(i)
             rate == brackets[i].rate
             tax1 == IF total_taxable_income > prev_limit
                     THEN tax + Min(total_taxable_income - prev_limit,
                                    limit - prev_limit) * rate
                     ELSE tax
         IN  IF total_taxable_income <= limit THEN tax1
             ELSE BracketLoop_PrevLimitStuck(i + 1, tax1, prev_limit,
                                             total_taxable_income)

\* BracketLoop taxing the whole total at the rate of the bracket it falls in
RECURSIVE BracketLoop_FlatRate(_, _, _, _)
BracketLoop_FlatRate(i, tax, prev_limit, total_taxable_income) ==
    IF i > Len(brackets) THEN tax
    ELSE IF total_taxable_income <= BracketLimit(i)
    THEN total_taxable_income * brackets[i].rate
    ELSE BracketLoop_FlatRate(i + 1, tax, BracketLimit(i), total_taxable_income)

\* the for loop of calculate_federal_tax from bracket i on
RECURSIVE BracketLoop(_, _, _, _)
BracketLoop(i, tax, prev_limit, total_taxable_income) ==
    IF i > Len(brackets) THEN tax
    ELSE LET limit == BracketLimit(i)
             rate == brackets[i].rate
             tax1 == IF total_taxable_income > prev_limit
                     THEN tax + Min(total_taxable_income - prev_limit,
                                    limit - prev_limit) * rate
                     ELSE tax
         IN  IF total_taxable_income <= limit THEN tax1
             ELSE BracketLoop(i + 1, tax1, limit, total_taxable_income)

\* calculate_federal_tax: the result is a tax (TaxDen)
calculate_federal_tax(income, ss_benefit) ==
    LET taxable_ss == IF ss_benefit > 0
                      THEN calculate_taxable_ss_portion(ss_benefit, income)
                      ELSE 0
        total_taxable_income == income * FracDen + taxable_ss
    IN  BracketLoop(1, 0, 0, total_taxable_income)

\* nc_tax_rate = 0.0475, as a numerator over TaxDen
nc_tax_rate == 190

\* calculate_nc_state_tax: the result is a tax (TaxDen)
calculate_nc_state_tax(income, ss_benefit) == income * nc_tax_rate

(***************************************************************************)
(* Take-home converter                                                     *)
(***************************************************************************)

\* calculate_monthly_takehome with the benefit received before ss_start_age
\* instead of from it on
calculate_monthly_takehome_BenefitBeforeStart(annual_amount, age, ss_start_age, annual_ss_benefit) ==
    LET ss_benefit == IF age < ss_start_age THEN annual_ss_benefit ELSE 0
        federal_tax == calculate_federal_tax(annual_amount, ss_benefit)
        nc_state_tax == calculate_nc_state_tax(annual_amount, ss_benefit)
        after_tax == annual_amount * TaxDen - federal_tax - nc_state_tax
                        + ss_benefit * TaxDen
    IN  [monthly |-> after_tax, federal_tax |-> federal_tax,
         nc_state_tax |-> nc_state_tax, ss_benefit |-> ss_benefit]

\* calculate_monthly_takehome: monthly = after_tax / 12 is the same integer
\* read over MonthlyDen = 12 * TaxDen
calculate_monthly_takehome(annual_amount, age, ss_start_age, annual_ss_benefit) ==
    LET ss_benefit == IF age >= ss_start_age THEN annual_ss_benefit ELSE 0
        federal_tax == calculate_federal_tax(annual_amount, ss_benefit)
        nc_state_tax == calculate_nc_state_tax(annual_amount, ss_benefit)
        after_tax == annual_amount * TaxDen - federal_tax - nc_state_tax
                        + ss_benefit * TaxDen
    IN  [monthly |-> after_tax, federal_tax |-> federal_tax,
         nc_state_tax |-> nc_state_tax, ss_benefit |-> ss_benefit]

\* a monthly amount given in amount units, over MonthlyDen
Monthly(amount) == amount * MonthlyDen

(***************************************************************************)
(* Withdrawal solver                                                       *)
(***************************************************************************)

\* the locals of calculate_annual_withdrawal_for_takehome on entry to the
\* while loop of the branch taken
SolverStart(target_monthly, age, ss_start_age, annual_ss_benefit) ==
    LET target_annual == target_monthly * 12
    IN  [pc |-> "loop",
         low |-> 0,
         high |-> IF age >= ss_start_age THEN target_annual
                  ELSE (target_annual * 3) \div 2,
         best_withdrawal |-> 0,
         best_diff |-> inf,
         result |-> 0]

\* WhileBody with the two bounds moved the wrong way round
WhileBody_SwappedBounds(s, target_monthly, age, ss_start_age, annual_ss_benefit) ==
    LET mid == (s.low + s.high) \div 2
        monthly == calculate_monthly_takehome(mid, age, ss_start_age,
                                              annual_ss_benefit).monthly
        diff == Abs(monthly - Monthly(target_monthly))
    IN  IF diff < Monthly(USD(10))
        THEN [s EXCEPT !.pc = "returned", !.result = mid]
        ELSE [s EXCEPT
                !.low = IF monthly < Monthly(target_monthly) THEN s.low ELSE mid,
                !.high = IF monthly < Monthly(target_monthly) THEN mid ELSE s.high,
                !.best_withdrawal = IF diff < s.best_diff THEN mid
                                    ELSE s.best_withdrawal,
                !.best_diff = IF diff < s.best_diff THEN diff ELSE s.best_diff]

\* WhileBody comparing the annual net (after_tax, not divided by 12) with
\* target_monthly where it moves a bound
WhileBody_AnnualNet(s, target_monthly, age, ss_start_age, annual_ss_benefit) ==
    LET mid == (s.low + s.high) \div 2
        monthly == calculate_monthly_takehome(mid, age, ss_start_age,
                                              annual_ss_benefit).monthly
        diff == Abs(monthly - Monthly(target_monthly))
        after_tax_below == monthly < target_monthly * TaxDen
    IN  IF diff < Monthly(USD(10))
        THEN [s EXCEPT !.pc = "returned", !.result = mid]
        ELSE [s EXCEPT
                !.low = IF after_tax_below THEN mid ELSE s.low,
                !.high = IF after_tax_below THEN s.high ELSE mid,
                !.best_withdrawal = IF diff < s.best_diff THEN mid
                                    ELSE s.best_withdrawal,
                !.best_diff = IF diff < s.best_diff THEN diff ELSE s.best_diff]

\* WhileBody with the comparison of diff and best_diff turned round
WhileBody_WorstKept(s, target_monthly, age, ss_start_age, annual_ss_benefit) ==
    LET mid == (s.low + s.high) \div 2
        monthly == calculate_monthly_takehome(mid, age, ss_start_age,
                                              annual_ss_benefit).monthly
        diff == Abs(monthly - Monthly(target_monthly))
    IN  IF diff < Monthly(USD(10))
        THEN [s EXCEPT !.pc = "returned", !.result = mid]
        ELSE [s EXCEPT
                !.low = IF monthly < Monthly(target_monthly) THEN mid ELSE s.low,
                !.high = IF monthly < Monthly(target_monthly) THEN s.high ELSE mid,
                !.best_withdrawal = IF diff > s.best_diff THEN mid
                                    ELSE s.best_withdrawal,
                !.best_diff = IF diff > s.best_diff THEN diff ELSE s.best_diff]

\* WhileBody with "low = low" for "low = mid"
WhileBody_LowStuck(s, target_monthly, age, ss_start_age, annual_ss_benefit) ==
    LET mid == (s.low + s.high) \div 2
        monthly == calculate_monthly_takehome(mid, age, ss_start_age,
                                              annual_ss_benefit).monthly
        diff == Abs(monthly - Monthly(target_monthly))
    IN  IF diff < Monthly(USD(10))
        THEN [s EXCEPT !.pc = "returned", !.result = mid]
        ELSE [s EXCEPT
                !.high = IF monthly < Monthly(target_monthly) THEN s.high ELSE mid,
                !.best_withdrawal = IF diff < s.best_diff THEN mid
                                    ELSE s.best_withdrawal,
                !.best_diff = IF diff < s.best_diff THEN diff ELSE s.best_diff]

\* one execution of the while body
WhileBody(s, target_monthly, age, ss_start_age, annual_ss_benefit) ==
    LET mid == (s.low + s.high) \div 2
        monthly == calculate_monthly_takehome(mid, age, ss_start_age,
                                              annual_ss_benefit).monthly
        diff == Abs(monthly - Monthly(target_monthly))
    IN  IF diff < Monthly(USD(10))
        THEN [s EXCEPT !.pc = "returned", !.result = mid]
        ELSE [s EXCEPT
                !.low = IF monthly < Monthly(target_monthly) THEN mid ELSE s.low,
                !.high = IF monthly < Monthly(target_monthly) THEN s.high ELSE mid,
                !.best_withdrawal = IF diff < s.best_diff THEN mid
                                    ELSE s.best_withdrawal,
                !.best_diff = IF diff < s.best_diff THEN diff ELSE s.best_diff]

\* the while condition
WhileCond(s) == s.high - s.low > USD(100)

\* return best_withdrawal
LoopExit(s) == [s EXCEPT !.pc = "returned", !.result = s.best_withdrawal]

\* the while loop run from the locals s to its return
RECURSIVE RunLoop(_, _, _, _, _)
RunLoop(s, target_monthly, age, ss_start_age, annual_ss_benefit) ==
    IF s.pc = "returned" THEN s.result
    ELSE IF WhileCond(s)
    THEN RunLoop(WhileBody(s, target_monthly, age, ss_start_age, annual_ss_benefit),
                 target_monthly, age, ss_start_age, annual_ss_benefit)
    ELSE LoopExit(s).result

\* calculate_annual_withdrawal_for_takehome: the value the loop returns
calculate_annual_withdrawal_for_takehome(target_monthly, age, ss_start_age, annual_ss_benefit) ==
    RunLoop(SolverStart(target_monthly, age, ss_start_age, annual_ss_benefit),
            target_monthly, age, ss_start_age, annual_ss_benefit)

(***************************************************************************)
(* Monte Carlo run (run_retirement_analysis)                               *)
(*                                                                         *)
(* A rate (mean_return, volatility, inflation_rate, annual_return) is an   *)
(* integer number of 1/RateUnit.  A balance or a current withdrawal of a   *)
(* trial is an integer number of 1/SimScale of an amount unit, so that the *)
(* yearly products by (1 + rate) are exact for every year of a run.  A     *)
(* percentile is an integer number of 1/(PctDen * SimScale).               *)
(***************************************************************************)
RateUnit == 4
PctDen == 20
MaxSpan == 2
MaxSims == 2
MaxCalls == 2
StreamPeriod == 3
SimScale == RateUnit ^ (MaxSpan + 1)

\* x * (1 + rate)
TimesOnePlus(x, rate) == (x * (RateUnit + rate)) \div RateUnit

\* np.random.seed(42) leaving the source where it stands
np_random_seed_NoReset(r) == r

\* np.random.seed(42): the source restarts the stream of seed 42
np_random_seed(r) == [r EXCEPT !.pos = 0]

\* the standard normal deviate the source yields next
NextDeviate(r) == r.stream[(r.pos % Len(r.stream)) + 1]

\* a zero scale rejected as well
NormalRaises_ZeroScale(scale) == scale <= 0

\* np.random.normal(loc, scale) raises ValueError on a negative scale
NormalRaises(scale) == scale < 0

\* np.random.normal(mean_return): the scale left at its default of 1.0
np_random_normal_DefaultScale(loc, scale, z) == loc + RateUnit * z

\* np.random.normal(loc, scale) for the deviate z
np_random_normal(loc, scale, z) == loc + scale * z

\* np.arange(start_age, end_age + 1)
arange(start_age, end_age) ==
    [k \in 1..Max(0, end_age - start_age + 1) |-> start_age + k - 1]

\* np.mean(all_simulations[:, -1] >= 0) * 100: a final balance of 0 a success
SuccessRate_ZeroCounts(all_simulations) ==
    LET finals == [t \in 1..Len(all_simulations) |->
                      all_simulations[t][Len(all_simulations[t])]]
    IN  <<100 * Cardinality({t \in 1..Len(finals) : finals[t] >= 0}), Len(finals)>>

\* np.mean(all_simulations[:, -1] > 0) * 100, as the fraction <<num, den>>
SuccessRate(all_simulations) ==
    LET finals == [t \in 1..Len(all_simulations) |->
                      all_simulations[t][Len(all_simulations[t])]]
    IN  <<100 * Cardinality({t \in 1..Len(finals) : finals[t] > 0}), Len(finals)>>

\* the values of a sequence in non-decreasing order
RECURSIVE Sorted(_)
Sorted(q) ==
    IF Len(q) = 0 THEN <<>>
    ELSE LET m == CHOOSE k \in 1..Len(q) : \A j \in 1..Len(q) : q[k] <= q[j]
         IN  <<q[m]>> \o Sorted([j \in 1..(Len(q) - 1) |->
                                    IF j < m THEN q[j] ELSE q[j + 1]])

\* np.percentile interpolating on the column as it stands, without ordering it
Percentile_Unsorted(column, pct) ==
    LET n == Len(column)
        position == (pct \div 5) * (n - 1)
        below == position \div PctDen
        frac == position % PctDen
    IN  IF frac = 0 THEN column[below + 1] * PctDen
        ELSE column[below + 1] * PctDen
                + frac * (column[below + 2] - column[below + 1])

\* np.percentile(column, pct): linear interpolation between the two order
\* statistics around the position pct / 100 * (n - 1)
Percentile(column, pct) ==
    LET srt == Sorted(column)
        n == Len(srt)
        position == (pct \div 5) * (n - 1)
        below == position \div PctDen
        frac == position % PctDen
    IN  IF frac = 0 THEN srt[below + 1] * PctDen
        ELSE srt[below + 1] * PctDen + frac * (srt[below + 2] - srt[below + 1])

\* np.percentile(all_simulations, pct, axis=0)
PercentileBand(all_simulations, pct) ==
    [k \in 1..Len(all_simulations[1]) |->
        Percentile([t \in 1..Len(all_simulations) |-> all_simulations[t][k]], pct)]

\* all_simulations[:, -1] raises IndexError unless the array is two-dimensional
\* with at least one column
IndexRaises(all_simulations) ==
    \/ Len(all_simulations) = 0
    \/ Len(all_simulations[1]) = 0

(***************************************************************************)
(* Inputs                                                                  *)
(***************************************************************************)
BenefitStep == 6000
MaxBenefitSteps == 6
IncomeStep == 5500
MaxIncomeSteps == 8
AmountStep == 7000
MaxAmountSteps == 12
MaxTargetExp == 10

Benefits == { USD(k * BenefitStep) : k \in 0..MaxBenefitSteps }
Incomes == { USD(k * IncomeStep) : k \in 0..MaxIncomeSteps }
                \cup { USD(d) : d \in {11600, 47150, 100525, 191950, 243725,
                                       609350, 700000} }
Amounts == { USD(k * AmountStep) : k \in 0..MaxAmountSteps }
                \cup { USD(d) : d \in {11600, 11601, 47150, 47151, 100525, 100526,
                                       191950, 191951, 243725, 243726, 400000} }
Ages == {64, 65, 66}
SSStartAges == {65}

\* the targets on which every midpoint of the search is a whole amount:
\* 12 * t and 18 * t halve exactly down to a width of at most 100
Targets == {0} \cup { USD(c * 2^e) : c \in {1, 3, 5, 7, 9, 11}, e \in 0..MaxTargetExp }

NoProbe == [fn |-> "none", a |-> <<0, 0>>, b |-> <<0, 0>>, ra |-> 0, rb |-> 0,
            done |-> FALSE]
NoCall == [target_monthly |-> 0, age |-> 0, ss_start_age |-> 0,
           annual_ss_benefit |-> 0]
NoSol == [pc |-> "idle", low |-> 0, high |-> 0, best_withdrawal |-> 0,
          best_diff |-> 0, result |-> 0]

\* the profiles within the contract: start_age <= ss_start_age <= end_age,
\* num_simulations >= 1, non-negative rates and amounts
ValidProfiles ==
    { p \in { [initial_balance |-> USD(b), mean_return |-> 1, volatility |-> v,
               inflation_rate |-> f, start_age |-> 64, ss_start_age |-> ssa,
               end_age |-> e, target_monthly_takehome |-> USD(t),
               annual_ss_benefit |-> USD(24000), num_simulations |-> n] :
                 b \in {0, 40000}, v \in {0, 1}, f \in {0, 1}, ssa \in {64, 65},
                 e \in 64..(64 + MaxSpan), t \in {0, 256, 2048}, n \in 1..MaxSims } :
        p.ss_start_age <= p.end_age }

DefaultProfile ==
    [initial_balance |-> USD(40000), mean_return |-> 1, volatility |-> 1,
     inflation_rate |-> 1, start_age |-> 64, ss_start_age |-> 65, end_age |-> 65,
     target_monthly_takehome |-> USD(256), annual_ss_benefit |-> USD(24000),
     num_simulations |-> 2]

\* profiles the caller should not pass, and the function does not reject
InvalidProfiles ==
    { [DefaultProfile EXCEPT !.volatility = -1],
      [DefaultProfile EXCEPT !.num_simulations = 0],
      [DefaultProfile EXCEPT !.end_age = 63] }

\* the streams of standard normal deviates the seed may stand for
Deviates == {-1, 1}
Streams == [1..StreamPeriod -> Deviates]

NoProf == [DefaultProfile EXCEPT !.num_simulations = 0]
NoRng == [stream |-> <<0>>, pos |-> 0, fresh |-> FALSE]
NoTable == [of |-> 0, withdrawal |-> <<>>]
NoSearch == [pc |-> "idle", target_success_rate |-> 0, low |-> 0, high |-> 0,
             best_monthly |-> 0, best_success_rate |-> <<0, 1>>,
             best_withdrawals |-> <<0, 0>>, best_simulation_results |-> <<>>,
             probed |-> <<>>, result |-> <<>>]
NoRun == [pc |-> "idle", error |-> "", seeded |-> FALSE,
          withdrawal_before_ss |-> 0, withdrawal_after_ss |-> 0,
          years |-> <<>>, all_simulations |-> <<>>, sim |-> 0, i |-> 0,
          balance |-> 0, current_withdrawal_before_ss |-> 0,
          current_withdrawal_after_ss |-> 0, balances |-> <<>>]

(***************************************************************************)
(* SpecPure: one application of a pure function to drawn arguments         *)
(***************************************************************************)

\* calculate_taxable_ss_portion and calculate_monthly_takehome at two points
\* a <= b, calculate_federal_tax at one
InitPure ==
    /\ unit = 1
    /\ call = NoCall /\ sol = NoSol
    /\ prof = NoProf /\ rng = NoRng /\ run = NoRun /\ results = <<>>
    /\ table = NoTable /\ search = NoSearch
    /\ \/ \E b1 \in Benefits, b2 \in Benefits, o1 \in Incomes, o2 \in Incomes :
             /\ b1 <= b2 /\ o1 <= o2
             /\ probe = [NoProbe EXCEPT !.fn = "taxable_ss",
                                        !.a = <<b1, o1>>, !.b = <<b2, o2>>]
       \/ \E i \in Incomes, s \in Benefits :
             probe = [NoProbe EXCEPT !.fn = "federal_tax",
                                     !.a = <<i, s>>, !.b = <<i, s>>]
       \/ \E x \in Amounts, y \in Amounts, age \in Ages, ssa \in SSStartAges,
             ssb \in Benefits :
             /\ x <= y
             /\ probe = [NoProbe EXCEPT !.fn = "monthly_takehome",
                                        !.a = <<x, age, ssa, ssb>>,
                                        !.b = <<y, age, ssa, ssb>>]

ApplyTaxableSS ==
    /\ probe.fn = "taxable_ss" /\ ~probe.done
    /\ probe' = [probe EXCEPT
                   !.ra = calculate_taxable_ss_portion(probe.a[1], probe.a[2]),
                   !.rb = calculate_taxable_ss_portion(probe.b[1], probe.b[2]),
                   !.done = TRUE]
    /\ UNCHANGED <<unit, pageVars, solverVars, mainVars>>

ApplyFederalTax ==
    /\ probe.fn = "federal_tax" /\ ~probe.done
    /\ probe' = [probe EXCEPT
                   !.ra = calculate_federal_tax(probe.a[1], probe.a[2]),
                   !.rb = calculate_federal_tax(probe.b[1], probe.b[2]),
                   !.done = TRUE]
    /\ UNCHANGED <<unit, pageVars, solverVars, mainVars>>

ApplyMonthlyTakehome ==
    /\ probe.fn = "monthly_takehome" /\ ~probe.done
    /\ probe' = [probe EXCEPT
                   !.ra = calculate_monthly_takehome(probe.a[1], probe.a[2],
                                                     probe.a[3], probe.a[4]).monthly,
                   !.rb = calculate_monthly_takehome(probe.b[1], probe.b[2],
                                                     probe.b[3], probe.b[4]).monthly,
                   !.done = TRUE]
    /\ UNCHANGED <<unit, pageVars, solverVars, mainVars>>

NextPure == ApplyTaxableSS \/ ApplyFederalTax \/ ApplyMonthlyTakehome

SpecPure == InitPure /\ [][NextPure]_vars

(***************************************************************************)
(* SpecSolver: calculate_annual_withdrawal_for_takehome, one step per      *)
(* evaluation of the while condition                                       *)
(***************************************************************************)
InitSolver ==
    /\ unit = 1
    /\ probe = NoProbe
    /\ prof = NoProf /\ rng = NoRng /\ run = NoRun /\ results = <<>>
    /\ table = NoTable /\ search = NoSearch
    /\ \E t \in Targets, age \in Ages, ssa \in SSStartAges, ssb \in Benefits :
          /\ call = [target_monthly |-> t, age |-> age, ss_start_age |-> ssa,
                     annual_ss_benefit |-> ssb]
          /\ sol = SolverStart(t, age, ssa, ssb)

\* the condition holds: the body runs (and may return mid)
SolverIterate ==
    /\ sol.pc = "loop" /\ WhileCond(sol)
    /\ sol' = WhileBody(sol, call.target_monthly, call.age, call.ss_start_age,
                        call.annual_ss_benefit)
    /\ UNCHANGED <<unit, pageVars, probe, call, mainVars>>

\* the condition fails: return best_withdrawal
SolverExit ==
    /\ sol.pc = "loop" /\ ~WhileCond(sol)
    /\ sol' = LoopExit(sol)
    /\ UNCHANGED <<unit, pageVars, probe, call, mainVars>>

NextSolver == SolverIterate \/ SolverExit

SpecSolver == InitSolver /\ [][NextSolver]_vars

\* the interpreter runs the loop to its end
SpecSolverFair == SpecSolver /\ WF_vars(NextSolver)

(***************************************************************************)
(* SpecScenario: the two solves at the head of run_retirement_analysis     *)
(* (lines 118-121) for the sidebar's default scenario and the scenarios    *)
(* its steps reach from there.  The resolution is a quarter dollar: a      *)
(* midpoint that falls between two quarters is taken at the lower one, so  *)
(* a withdrawal of the model is at most a quarter dollar below the code's. *)
(***************************************************************************)
ScenarioSteps == 2

\* the monthly benefits: 2930 + 50 j, and none
ScenarioBenefits == {0} \cup { 2930 + 50 * j : j \in 0..ScenarioSteps }

\* target 4400 + 100 k a month, the benefits above, ages 56, 65, 85
ScenarioProfiles ==
    { [DefaultProfile EXCEPT
          !.initial_balance = USD(1100000),
          !.start_age = 56, !.ss_start_age = 65, !.end_age = 85,
          !.target_monthly_takehome = USD(4400 + 100 * k),
          !.annual_ss_benefit = USD(monthly_ss_benefit * 12)] :
        k \in 0..ScenarioSteps, monthly_ss_benefit \in ScenarioBenefits }

\* the scenario of the sidebar's default values
ReferenceProfile ==
    [DefaultProfile EXCEPT
        !.initial_balance = USD(1100000),
        !.start_age = 56, !.ss_start_age = 65, !.end_age = 85,
        !.target_monthly_takehome = USD(4400),
        !.annual_ss_benefit = USD(2930 * 12)]

\* run_retirement_analysis is entered and the first solve (age = start_age)
\* begins
InitScenario ==
    /\ unit = 4
    /\ probe = NoProbe
    /\ prof \in ScenarioProfiles
    /\ rng = NoRng /\ results = <<>>
    /\ table = NoTable /\ search = NoSearch
    /\ run = [NoRun EXCEPT !.pc = "solve_before"]
    /\ call = [target_monthly |-> prof.target_monthly_takehome,
               age |-> prof.start_age, ss_start_age |-> prof.ss_start_age,
               annual_ss_benefit |-> prof.annual_ss_benefit]
    /\ sol = SolverStart(call.target_monthly, call.age, call.ss_start_age,
                         call.annual_ss_benefit)

\* the first solve returned: withdrawal_before_ss is set and the second solve
\* (age = ss_start_age) begins
SolvedBefore ==
    /\ run.pc = "solve_before" /\ sol.pc = "returned"
    /\ run' = [run EXCEPT !.pc = "solve_after",
                          !.withdrawal_before_ss = sol.result]
    /\ call' = [call EXCEPT !.age = prof.ss_start_age]
    /\ sol' = SolverStart(prof.target_monthly_takehome, prof.ss_start_age,
                          prof.ss_start_age, prof.annual_ss_benefit)
    /\ UNCHANGED <<unit, pageVars, probe, prof, rng, results>>

\* the second solve returned: withdrawal_after_ss is set
SolvedAfter ==
    /\ run.pc = "solve_after" /\ sol.pc = "returned"
    /\ run' = [run EXCEPT !.pc = "solved", !.withdrawal_after_ss = sol.result]
    /\ UNCHANGED <<unit, pageVars, probe, solverVars, prof, rng, results>>

NextScenario == SolverIterate \/ SolverExit \/ SolvedBefore \/ SolvedAfter

SpecScenario == InitScenario /\ [][NextScenario]_vars

(***************************************************************************)
(* Spec: Home.py.  The script seeds the random source (line 8) and calls   *)
(* run_retirement_analysis with the profile; the profile is called again,  *)
(* after a re-execution of the script (which seeds again) or without one.  *)
(***************************************************************************)
Init ==
    /\ unit = 1
    /\ probe = NoProbe /\ call = NoCall /\ sol = NoSol
    /\ prof \in ValidProfiles \cup InvalidProfiles
    /\ \E st \in Streams : rng = [stream |-> st, pos |-> 0, fresh |-> TRUE]
    /\ run = NoRun
    /\ results = <<>>
    /\ table = NoTable /\ search = NoSearch

\* the script is executed again: np.random.seed(42)
Seed ==
    /\ run.pc = "idle" /\ ~rng.fresh
    /\ Len(results) < MaxCalls
    /\ rng' = [np_random_seed(rng) EXCEPT !.fresh = TRUE]
    /\ UNCHANGED <<unit, pageVars, probe, solverVars, prof, run, results>>

\* run_retirement_analysis is entered: both withdrawals are solved, years and
\* the empty all_simulations are set up
Call ==
    /\ run.pc = "idle"
    /\ Len(results) < MaxCalls
    /\ run' = [NoRun EXCEPT
                 !.pc = "for_sim",
                 !.seeded = rng.fresh,
                 !.withdrawal_before_ss =
                     calculate_annual_withdrawal_for_takehome(
                         prof.target_monthly_takehome, prof.start_age,
                         prof.ss_start_age, prof.annual_ss_benefit),
                 !.withdrawal_after_ss =
                     calculate_annual_withdrawal_for_takehome(
                         prof.target_monthly_takehome, prof.ss_start_age,
                         prof.ss_start_age, prof.annual_ss_benefit),
                 !.years = arange(prof.start_age, prof.end_age)]
    /\ UNCHANGED <<unit, pageVars, probe, solverVars, prof, rng, results>>

\* BeginTrial with the current withdrawals set before the loop over the trials
\* only, so that a later trial goes on from where the one before left them
BeginTrial_CarryWithdrawals ==
    /\ run.pc = "for_sim" /\ run.sim < prof.num_simulations
    /\ run' = [run EXCEPT
                 !.pc = "for_age",
                 !.i = 1,
                 !.balance = prof.initial_balance * SimScale,
                 !.current_withdrawal_before_ss =
                     IF run.sim = 0 THEN run.withdrawal_before_ss * SimScale
                     ELSE run.current_withdrawal_before_ss,
                 !.current_withdrawal_after_ss =
                     IF run.sim = 0 THEN run.withdrawal_after_ss * SimScale
                     ELSE run.current_withdrawal_after_ss,
                 !.balances = <<>>]
    /\ UNCHANGED <<unit, pageVars, probe, solverVars, prof, rng, results>>

\* a trial begins: the start of the body of "for _ in range(num_simulations)"
BeginTrial ==
    /\ run.pc = "for_sim" /\ run.sim < prof.num_simulations
    /\ run' = [run EXCEPT
                 !.pc = "for_age",
                 !.i = 1,
                 !.balance = prof.initial_balance * SimScale,
                 !.current_withdrawal_before_ss = run.withdrawal_before_ss * SimScale,
                 !.current_withdrawal_after_ss = run.withdrawal_after_ss * SimScale,
                 !.balances = <<>>]
    /\ UNCHANGED <<unit, pageVars, probe, solverVars, prof, rng, results>>

\* Year escalating only the withdrawal track it has just used
Year_ActiveTrackOnly ==
    /\ run.pc = "for_age" /\ run.i <= Len(run.years)
    /\ IF NormalRaises(prof.volatility)
       THEN /\ run' = [run EXCEPT !.pc = "raised", !.error = "ValueError"]
            /\ UNCHANGED rng
       ELSE LET age == run.years[run.i]
                annual_return == np_random_normal(prof.mean_return, prof.volatility,
                                                  NextDeviate(rng))
                grown == TimesOnePlus(run.balance, annual_return)
                balance == IF age < prof.ss_start_age
                           THEN grown - run.current_withdrawal_before_ss
                           ELSE grown - run.current_withdrawal_after_ss
            IN  /\ run' = [run EXCEPT
                             !.balance = balance,
                             !.current_withdrawal_before_ss =
                                 IF age < prof.ss_start_age
                                 THEN TimesOnePlus(run.current_withdrawal_before_ss,
                                                   prof.inflation_rate)
                                 ELSE run.current_withdrawal_before_ss,
                             !.current_withdrawal_after_ss =
                                 IF age < prof.ss_start_age
                                 THEN run.current_withdrawal_after_ss
                                 ELSE TimesOnePlus(run.current_withdrawal_after_ss,
                                                   prof.inflation_rate),
                             !.balances = Append(run.balances, balance),
                             !.i = run.i + 1]
                /\ rng' = [rng EXCEPT !.pos = rng.pos + 1, !.fresh = FALSE]
    /\ UNCHANGED <<unit, pageVars, probe, solverVars, prof, results>>

\* Year with the balance floored at 0 after the withdrawal
Year_Floored ==
    /\ run.pc = "for_age" /\ run.i <= Len(run.years)
    /\ IF NormalRaises(prof.volatility)
       THEN /\ run' = [run EXCEPT !.pc = "raised", !.error = "ValueError"]
            /\ UNCHANGED rng
       ELSE LET age == run.years[run.i]
                annual_return == np_random_normal(prof.mean_return, prof.volatility,
                                                  NextDeviate(rng))
                grown == TimesOnePlus(run.balance, annual_return)
                balance == IF age < prof.ss_start_age
                           THEN Max(0, grown - run.current_withdrawal_before_ss)
                           ELSE Max(0, grown - run.current_withdrawal_after_ss)
            IN  /\ run' = [run EXCEPT
                             !.balance = balance,
                             !.current_withdrawal_before_ss =
                                 TimesOnePlus(run.current_withdrawal_before_ss,
                                              prof.inflation_rate),
                             !.current_withdrawal_after_ss =
                                 TimesOnePlus(run.current_withdrawal_after_ss,
                                              prof.inflation_rate),
                             !.balances = Append(run.balances, balance),
                             !.i = run.i + 1]
                /\ rng' = [rng EXCEPT !.pos = rng.pos + 1, !.fresh = FALSE]
    /\ UNCHANGED <<unit, pageVars, probe, solverVars, prof, results>>

\* one year of a trial: the body of "for age in years"
Year ==
    /\ run.pc = "for_age" /\ run.i <= Len(run.years)
    /\ IF NormalRaises(prof.volatility)
       THEN /\ run' = [run EXCEPT !.pc = "raised", !.error = "ValueError"]
            /\ UNCHANGED rng
       ELSE LET age == run.years[run.i]
                annual_return == np_random_normal(prof.mean_return, prof.volatility,
                                                  NextDeviate(rng))
                grown == TimesOnePlus(run.balance, annual_return)
                balance == IF age < prof.ss_start_age
                           THEN grown - run.current_withdrawal_before_ss
                           ELSE grown - run.current_withdrawal_after_ss
            IN  /\ run' = [run EXCEPT
                             !.balance = balance,
                             !.current_withdrawal_before_ss =
                                 TimesOnePlus(run.current_withdrawal_before_ss,
                                              prof.inflation_rate),
                             !.current_withdrawal_after_ss =
                                 TimesOnePlus(run.current_withdrawal_after_ss,
                                              prof.inflation_rate),
                             !.balances = Append(run.balances, balance),
                             !.i = run.i + 1]
                /\ rng' = [rng EXCEPT !.pos = rng.pos + 1, !.fresh = FALSE]
    /\ UNCHANGED <<unit, pageVars, probe, solverVars, prof, results>>

\* the years are exhausted: all_simulations.append(balances)
EndTrial ==
    /\ run.pc = "for_age" /\ run.i > Len(run.years)
    /\ run' = [run EXCEPT
                 !.pc = "for_sim",
                 !.all_simulations = Append(run.all_simulations, run.balances),
                 !.sim = run.sim + 1]
    /\ UNCHANGED <<unit, pageVars, probe, solverVars, prof, rng, results>>

\* the trials are exhausted: success rate, percentiles, return
Aggregate ==
    /\ run.pc = "for_sim" /\ run.sim >= prof.num_simulations
    /\ IF IndexRaises(run.all_simulations)
       THEN /\ run' = [run EXCEPT !.pc = "raised", !.error = "IndexError"]
            /\ UNCHANGED results
       ELSE /\ results' = Append(results,
                 [success_rate |-> SuccessRate(run.all_simulations),
                  withdrawal_before_ss |-> run.withdrawal_before_ss,
                  withdrawal_after_ss |-> run.withdrawal_after_ss,
                  years |-> run.years,
                  percentiles |->
                      [pct \in {95, 75, 50, 25, 5} |->
                          PercentileBand(run.all_simulations, pct)],
                  all_simulations |-> run.all_simulations,
                  seeded |-> run.seeded])
            /\ run' = [run EXCEPT !.pc = "idle"]
    /\ UNCHANGED <<unit, pageVars, probe, solverVars, prof, rng>>

\* w * (1 + inflation_rate) ** j as a current withdrawal (over SimScale), for
\* the exponents 0..MaxSpan + 1 that the profiles give rise to
CompoundedBy(w, j) ==
    w * (RateUnit + prof.inflation_rate) ^ j * RateUnit ^ (MaxSpan + 1 - j)

\* f"${withdrawal:,.0f}": a current withdrawal rounded to whole dollars, a half
\* going to the even neighbour
FormatWhole(v) ==
    LET den == unit * SimScale
        whole == v \div den
        rest == v % den
    IN  IF 2 * rest < den THEN whole
        ELSE IF 2 * rest > den THEN whole + 1
        ELSE IF whole % 2 = 0 THEN whole ELSE whole + 1

\* the withdrawal of row i (from 0) of projection_data for the result r
ProjectionWithdrawal(r, i) ==
    IF r.years[i + 1] < prof.ss_start_age
    THEN CompoundedBy(r.withdrawal_before_ss, i)
    ELSE CompoundedBy(r.withdrawal_after_ss,
                      i - (prof.ss_start_age - prof.start_age))

\* the script goes on after the call: the year-by-year table of the result
Project ==
    /\ run.pc = "idle"
    /\ Len(results) >= 1 /\ table.of # Len(results)
    /\ LET r == results[Len(results)]
       IN  table' = [of |-> Len(results),
                     withdrawal |->
                         [k \in 1..Len(r.years) |->
                             FormatWhole(ProjectionWithdrawal(r, k - 1))]]
    /\ UNCHANGED <<unit, probe, search, solverVars, mainVars>>

Next == Seed \/ Call \/ BeginTrial \/ Year \/ EndTrial \/ Aggregate \/ Project

Spec == Init /\ [][Next]_vars

(***************************************************************************)
(* SpecSearch: pages/Success_Rate_Calculator.py, find_maximum_takehome,    *)
(* one step per evaluation of its while condition.  Monthly amounts are    *)
(* quarter dollars (every midpoint of [2000, 10000] down to a width of 50  *)
(* is a multiple of 31.25); a balance or a current withdrawal of           *)
(* run_simulation is an integer number of 1/SearchScale of an amount unit; *)
(* a success rate is the fraction <<numerator, denominator>>.  The page    *)
(* never seeds the random source.  The model runs SearchSims trials where  *)
(* the code runs its default of 1000.                                      *)
(***************************************************************************)
SearchSpan == 1
SearchSims == 2
SearchScale == RateUnit ^ (SearchSpan + 1)

\* the fraction a is greater than the fraction b (denominators positive)
RateAbove(a, b) == a[1] * b[2] > b[1] * a[2]

\* one trial of run_simulation from the year of index i on: the final balance
RECURSIVE SimulateFrom(_, _, _, _, _, _)
SimulateFrom(i, balance, current_withdrawal_before_ss, current_withdrawal_after_ss, r, a) ==
    IF i > Len(a.years) THEN balance
    ELSE LET annual_return == np_random_normal(a.mean_return, a.volatility,
                                               NextDeviate(r))
             grown == TimesOnePlus(balance, annual_return)
         IN  SimulateFrom(i + 1,
                 IF a.years[i] < a.ss_start_age
                 THEN grown - current_withdrawal_before_ss
                 ELSE grown - current_withdrawal_after_ss,
                 TimesOnePlus(current_withdrawal_before_ss, a.inflation_rate),
                 TimesOnePlus(current_withdrawal_after_ss, a.inflation_rate),
                 [r EXCEPT !.pos = r.pos + 1, !.fresh = FALSE], a)

\* run_simulation drawing from the source r: (success_rate,
\* all_final_balances), and the source as the call leaves it
run_simulation(initial_balance, withdrawal_before_ss, withdrawal_after_ss, a, num_simulations, r) ==
    LET all_final_balances ==
            [t \in 1..num_simulations |->
                SimulateFrom(1, initial_balance * SearchScale,
                             withdrawal_before_ss * SearchScale,
                             withdrawal_after_ss * SearchScale,
                             [r EXCEPT !.pos = r.pos + (t - 1) * Len(a.years)], a)]
    IN  [success_rate |->
             <<100 * Cardinality({t \in 1..num_simulations :
                                     all_final_balances[t] > 0}),
               num_simulations>>,
         all_final_balances |-> all_final_balances,
         rng |-> [r EXCEPT !.pos = r.pos + num_simulations * Len(a.years),
                           !.fresh = FALSE]]

\* the arguments of run_simulation that the profile gives
SimulationArgs ==
    [mean_return |-> prof.mean_return, volatility |-> prof.volatility,
     inflation_rate |-> prof.inflation_rate, ss_start_age |-> prof.ss_start_age,
     years |-> arange(prof.start_age, prof.end_age)]

\* the locals of find_maximum_takehome on entry to its while loop
FindStart(target_success_rate) ==
    [NoSearch EXCEPT !.pc = "loop",
                     !.target_success_rate = target_success_rate,
                     !.low = USD(2000), !.high = USD(10000)]

\* the while condition of find_maximum_takehome
FindCond(s) == s.high - s.low > USD(50)

\* the probe of one execution of the while body: mid, the two estimated
\* withdrawals and what run_simulation returns for them
FindProbe(s, r) ==
    LET mid == (s.low + s.high) \div 2
        annual_target == mid * 12
        withdrawal_before_ss == (annual_target * 14) \div 10
        withdrawal_after_ss == ((annual_target - prof.annual_ss_benefit) * 13) \div 10
        sim == run_simulation(prof.initial_balance, withdrawal_before_ss,
                              withdrawal_after_ss, SimulationArgs, SearchSims, r)
    IN  [monthly |-> mid,
         withdrawals |-> <<withdrawal_before_ss, withdrawal_after_ss>>,
         success_rate |-> sim.success_rate,
         final_balances |-> sim.all_final_balances,
         rng |-> sim.rng]

\* one execution of the while body, given its probe p
FindBody(s, p) ==
    LET target == <<s.target_success_rate, 1>>
        seen == [s EXCEPT !.probed = Append(s.probed,
                     [monthly |-> p.monthly, withdrawals |-> p.withdrawals,
                      success_rate |-> p.success_rate,
                      final_balances |-> p.final_balances])]
    IN  IF Abs(p.success_rate[1] - s.target_success_rate * p.success_rate[2])
              < p.success_rate[2]
        THEN [seen EXCEPT !.pc = "returned",
                          !.result = <<p.monthly, p.withdrawals, p.success_rate,
                                       p.final_balances>>]
        ELSE IF RateAbove(p.success_rate, target)
        THEN IF RateAbove(p.success_rate, s.best_success_rate)
             THEN [seen EXCEPT !.low = p.monthly,
                               !.best_monthly = p.monthly,
                               !.best_success_rate = p.success_rate,
                               !.best_withdrawals = p.withdrawals,
                               !.best_simulation_results = p.final_balances]
             ELSE [seen EXCEPT !.low = p.monthly]
        ELSE [seen EXCEPT !.high = p.monthly]

\* return best_monthly, best_withdrawals, best_success_rate,
\* best_simulation_results
FindExit(s) ==
    [s EXCEPT !.pc = "returned",
              !.result = <<s.best_monthly, s.best_withdrawals, s.best_success_rate,
                           s.best_simulation_results>>]

\* the desired success rates, in percent
SearchTargets == {50, 80, 95}

\* the profiles of the page: two ages or more, with and without a benefit
SearchProfiles ==
    { [DefaultProfile EXCEPT
          !.initial_balance = USD(b), !.volatility = v, !.inflation_rate = f,
          !.start_age = 64, !.ss_start_age = 65, !.end_age = 64 + SearchSpan,
          !.target_monthly_takehome = 0,
          !.annual_ss_benefit = USD(ssb), !.num_simulations = SearchSims] :
        b \in {100000, 200000}, v \in {0, 1}, f \in {0, 1}, ssb \in {0, 35160} }

InitSearch ==
    /\ unit = 4
    /\ probe = NoProbe /\ call = NoCall /\ sol = NoSol
    /\ prof \in SearchProfiles
    /\ \E st \in Streams : rng = [stream |-> st, pos |-> 0, fresh |-> FALSE]
    /\ run = NoRun /\ results = <<>> /\ table = NoTable
    /\ \E t \in SearchTargets : search = FindStart(t)

\* the condition holds: the body runs one simulation (and may return mid)
SearchIterate ==
    /\ search.pc = "loop" /\ FindCond(search)
    /\ IF NormalRaises(prof.volatility)
       THEN /\ search' = [search EXCEPT !.pc = "raised"]
            /\ UNCHANGED rng
       ELSE LET p == FindProbe(search, rng)
            IN  /\ search' = FindBody(search, p)
                /\ rng' = p.rng
    /\ UNCHANGED <<unit, probe, solverVars, prof, run, results, table>>

\* the condition fails: the best probe is returned
SearchExit ==
    /\ search.pc = "loop" /\ ~FindCond(search)
    /\ search' = FindExit(search)
    /\ UNCHANGED <<unit, probe, solverVars, mainVars, table>>

NextSearch == SearchIterate \/ SearchExit

SpecSearch == InitSearch /\ [][NextSearch]_vars

(***************************************************************************)
(* Claims about the tax engine and the take-home converter (SpecPure)      *)
(***************************************************************************)

\* the reference progressive tax of a total: the sum over the brackets of
\* rate times the part of the total between the previous bound and the bound
RECURSIVE RefBracketSum(_, _)
RefBracketSum(i, total) ==
    IF i = 0 THEN 0
    ELSE LET lo == IF i = 1 THEN 0 ELSE BracketLimit(i - 1)
             hi == BracketLimit(i)
         IN  RefBracketSum(i - 1, total)
               + brackets[i].rate * Max(0, Min(total, hi) - lo)

RefBracketTax(total) == RefBracketSum(Len(brackets), total)

\* C5: calculate_federal_tax(income, ss_benefit) is the reference progressive
\* tax of income + calculate_taxable_ss_portion(ss_benefit, income) when
\* ss_benefit > 0 and of income when ss_benefit = 0; it is 0 at (0, 0) and
\* 1160 at (11600, 0).
C5_FederalTaxIsBracketTax ==
    (probe.fn = "federal_tax" /\ probe.done) =>
        LET income == probe.a[1]
            ss_benefit == probe.a[2]
        IN  /\ ss_benefit > 0 =>
                  probe.ra = RefBracketTax(income * FracDen
                      + calculate_taxable_ss_portion(ss_benefit, income))
            /\ ss_benefit = 0 => probe.ra = RefBracketTax(income * FracDen)
            /\ (income = 0 /\ ss_benefit = 0) => probe.ra = 0
            /\ (income = USD(11600) /\ ss_benefit = 0) =>
                  probe.ra = USD(1160) * TaxDen

\* a federal tax computed with a benefit, on a total in the top bracket
C5_Witness ==
    /\ probe.fn = "federal_tax" /\ probe.done
    /\ probe.a[2] > 0
    /\ probe.a[1] > USD(609350)
    /\ probe.ra > 0

\* C6: calculate_taxable_ss_portion is non-decreasing in the benefit and in
\* the other income, and never exceeds 0.85 * benefit.
C6_TaxableSSMonotoneBounded ==
    (probe.fn = "taxable_ss" /\ probe.done) =>
        /\ probe.ra <= probe.rb
        /\ probe.ra <= probe.a[1] * Pct85
        /\ probe.rb <= probe.b[1] * Pct85

\* two points on either side of the 34,000 threshold, the result growing
C6_Witness ==
    /\ probe.fn = "taxable_ss" /\ probe.done
    /\ probe.a[2] * FracDen + probe.a[1] * Half > USD(25000) * FracDen
    /\ probe.a[2] * FracDen + probe.a[1] * Half <= USD(34000) * FracDen
    /\ probe.b[2] * FracDen + probe.b[1] * Half > USD(34000) * FracDen
    /\ 0 < probe.ra /\ probe.ra < probe.rb

\* C3: for fixed age, ss_start_age and benefit, the monthly net of
\* calculate_monthly_takehome is non-decreasing in the gross withdrawal.
C3_TakehomeMonotone ==
    (probe.fn = "monthly_takehome" /\ probe.done) => probe.ra <= probe.rb

\* two withdrawals x < y with Social Security received, the net growing
C3_Witness ==
    /\ probe.fn = "monthly_takehome" /\ probe.done
    /\ probe.a[1] < probe.b[1]
    /\ probe.a[2] >= probe.a[3] /\ probe.a[4] > 0
    /\ probe.ra < probe.rb

(***************************************************************************)
(* Claims about the withdrawal solver (SpecSolver, SpecSolverFair)         *)
(***************************************************************************)

\* the monthly net of a withdrawal under the arguments of the call
NetOf(w) ==
    calculate_monthly_takehome(w, call.age, call.ss_start_age,
                               call.annual_ss_benefit).monthly

\* the upper end of the initial search interval
Upper ==
    IF call.age >= call.ss_start_age THEN 12 * call.target_monthly
    ELSE 18 * call.target_monthly

\* the target lies between the nets of the ends of the initial interval
Achievable ==
    /\ NetOf(0) <= Monthly(call.target_monthly)
    /\ Monthly(call.target_monthly) <= NetOf(Upper)

\* C1: for a target achievable inside the initial interval, the monthly net of
\* the returned withdrawal differs from the target by less than 10.
C1_RoundTrip ==
    (sol.pc = "returned" /\ Achievable) =>
        Abs(NetOf(sol.result) - Monthly(call.target_monthly)) < Monthly(USD(10))

\* an achievable target above 1000 solved with Social Security received
C1_Witness ==
    /\ sol.pc = "returned" /\ Achievable
    /\ call.age >= call.ss_start_age /\ call.annual_ss_benefit > 0
    /\ call.target_monthly > USD(1000)
    /\ sol.result > 0

\* C2: when Social Security is received (age >= ss_start_age), the monthly net
\* of a withdrawal of target_monthly * 12 is at least target_monthly.
C2_UpperBoundSufficient ==
    (sol.pc = "returned" /\ call.age >= call.ss_start_age) =>
        NetOf(12 * call.target_monthly) >= Monthly(call.target_monthly)

\* C4: the solver always returns: the loop runs on only while high - low > 100
\* and no midpoint came within 10 of the target, every iteration that does not
\* return halves the interval, and an unreachable target still gets a result.
C4_SolverTerminates ==
    /\ <>(sol.pc = "returned")
    /\ [][(sol.pc = "loop" /\ sol'.pc = "loop") =>
             /\ WhileCond(sol)
             /\ 2 * (sol'.high - sol'.low) = sol.high - sol.low]_vars
    /\ [](sol.pc = "returned" =>
             \/ ~WhileCond(sol)
             \/ Abs(NetOf(sol.result) - Monthly(call.target_monthly))
                    < Monthly(USD(10)))

\* an unreachable target: the loop ran to a width of at most 100 and the result
\* is off the target by 10 or more
C4_Witness ==
    /\ sol.pc = "returned" /\ ~Achievable
    /\ ~WhileCond(sol) /\ sol.high < Upper
    /\ sol.result > 0
    /\ Abs(NetOf(sol.result) - Monthly(call.target_monthly)) >= Monthly(USD(10))

\* C13: when the initial interval brackets the root (the net being
\* non-decreasing), after every iteration 0 <= low <= high <= upper and
\* net(low) <= target_monthly <= net(high), and the midpoint probed next, the
\* best midpoint so far and the returned value lie in [0, upper].
C13_LoopInvariant ==
    (sol.pc \in {"loop", "returned"} /\ Achievable) =>
        /\ 0 <= sol.low /\ sol.low <= sol.high /\ sol.high <= Upper
        /\ NetOf(sol.low) <= Monthly(call.target_monthly)
        /\ Monthly(call.target_monthly) <= NetOf(sol.high)
        /\ (sol.pc = "loop" /\ WhileCond(sol)) =>
               /\ 0 <= (sol.low + sol.high) \div 2
               /\ (sol.low + sol.high) \div 2 <= Upper
        /\ 0 <= sol.best_withdrawal /\ sol.best_withdrawal <= Upper
        /\ sol.pc = "returned" => (0 <= sol.result /\ sol.result <= Upper)

\* an achievable target, in the loop, after both bounds have moved
C13_Witness ==
    /\ sol.pc = "loop" /\ Achievable
    /\ 0 < sol.low /\ sol.low < sol.high /\ sol.high < Upper
    /\ NetOf(sol.low) < Monthly(call.target_monthly)
    /\ Monthly(call.target_monthly) < NetOf(sol.high)

\* the midpoints the loop probes from the locals s on, in order
RECURSIVE ProbedFrom(_)
ProbedFrom(s) ==
    IF s.pc = "returned" \/ ~WhileCond(s) THEN <<>>
    ELSE <<(s.low + s.high) \div 2>>
            \o ProbedFrom(WhileBody(s, call.target_monthly, call.age,
                                    call.ss_start_age, call.annual_ss_benefit))

\* the midpoints the call probes
Probed ==
    ProbedFrom(SolverStart(call.target_monthly, call.age, call.ss_start_age,
                           call.annual_ss_benefit))

\* the absolute deviation of the monthly net of w from the target
Deviation(w) == Abs(NetOf(w) - Monthly(call.target_monthly))

\* the earliest midpoint of q with the smallest deviation
BestProbed(q) ==
    q[CHOOSE k \in 1..Len(q) :
          /\ \A j \in 1..Len(q) : Deviation(q[k]) <= Deviation(q[j])
          /\ \A j \in 1..(k - 1) : Deviation(q[j]) > Deviation(q[k])]

\* C14: when the loop ends on high - low <= 100 with no midpoint within 10 of
\* the target, the value returned is the probed midpoint of smallest absolute
\* deviation (the earliest on ties), and 0 when the body never ran.
C14_FallbackIsBestProbed ==
    (/\ sol.pc = "returned" /\ ~WhileCond(sol)
     /\ \A j \in 1..Len(Probed) : Deviation(Probed[j]) >= Monthly(USD(10))) =>
        /\ Probed # <<>> => sol.result = BestProbed(Probed)
        /\ Probed = <<>> => sol.result = 0
        /\ Upper <= USD(100) => (Probed = <<>> /\ sol.result = 0)

\* a fallback after five probes or more, the first of them not the best
C14_Witness ==
    /\ sol.pc = "returned" /\ ~WhileCond(sol)
    /\ Len(Probed) >= 5
    /\ \A j \in 1..Len(Probed) : Deviation(Probed[j]) >= Monthly(USD(10))
    /\ sol.result = BestProbed(Probed)
    /\ sol.result # Probed[1]

\* C11: in the reference scenario (target 4400 a month, start_age 56,
\* ss_start_age 65, benefit 35,160 a year), and in the scenarios around it, the
\* solver's result for age = ss_start_age is strictly smaller than its result
\* for age = start_age.
C11_AfterBelowBefore ==
    run.pc = "solved" => run.withdrawal_after_ss < run.withdrawal_before_ss

\* the reference scenario solved: 22,275 after, 65,278 (and an eighth in the
\* code) before
C11_Witness ==
    /\ run.pc = "solved" /\ prof = ReferenceProfile
    /\ run.withdrawal_after_ss = USD(22275)
    /\ run.withdrawal_before_ss = USD(65278)

(***************************************************************************)
(* Claims about run_retirement_analysis (Spec)                             *)
(***************************************************************************)

\* the final-year balance of trial t of a result
FinalBalance(r, t) == r.all_simulations[t][Len(r.years)]

\* C7: success_rate is the share, on the 0-100 scale, of the num_simulations
\* trials whose final-year balance is strictly greater than 0 (a trial ending at
\* exactly 0 is a failure), so 0 <= success_rate <= 100.
C7_SuccessRateIsShare ==
    \A k \in 1..Len(results) :
        LET r == results[k]
            n == prof.num_simulations
            positive == { t \in 1..n : FinalBalance(r, t) > 0 }
        IN  /\ n >= 1
            /\ Len(r.all_simulations) = n
            /\ r.success_rate[2] = n
            /\ r.success_rate[1] = 100 * Cardinality(positive)
            /\ 0 <= r.success_rate[1]
            /\ r.success_rate[1] <= 100 * r.success_rate[2]

\* two trials that both end at exactly 0, and a success rate of 0
C7_Witness ==
    /\ Len(results) >= 1
    /\ prof.num_simulations = 2
    /\ FinalBalance(results[1], 1) = 0 /\ FinalBalance(results[1], 2) = 0
    /\ results[1].success_rate = <<0, 2>>

\* C12: at every age index of every result the percentile bands are ordered,
\* 5th <= 25th <= 50th <= 75th <= 95th, whatever the paths are (negative
\* balances included).
C12_PercentilesOrdered ==
    \A k \in 1..Len(results) :
        \A i \in 1..Len(results[k].years) :
            LET band == results[k].percentiles
            IN  /\ band[5][i] <= band[25][i]
                /\ band[25][i] <= band[50][i]
                /\ band[50][i] <= band[75][i]
                /\ band[75][i] <= band[95][i]

\* two trials whose first is above the second at the last age, the lower one
\* negative, and the five bands strictly apart there
C12_Witness ==
    /\ Len(results) >= 1 /\ prof.num_simulations = 2
    /\ LET r == results[1]
           i == Len(r.years)
       IN  /\ i >= 2
           /\ r.all_simulations[1][i] > r.all_simulations[2][i]
           /\ r.all_simulations[2][i] < 0
           /\ r.percentiles[5][i] < r.percentiles[25][i]
           /\ r.percentiles[25][i] < r.percentiles[50][i]
           /\ r.percentiles[50][i] < r.percentiles[75][i]
           /\ r.percentiles[75][i] < r.percentiles[95][i]

\* what a call returned (without the record of how the source stood)
Returned(r) ==
    <<r.success_rate, r.withdrawal_before_ss, r.withdrawal_after_ss, r.years,
      r.percentiles, r.all_simulations>>

\* C8 (as amended): two runs with the same profile that each start right after
\* np.random.seed(42) return identical results.
C8_SeededRunsIdentical ==
    \A j \in 1..Len(results), k \in 1..Len(results) :
        (results[j].seeded /\ results[k].seeded) =>
            Returned(results[j]) = Returned(results[k])

\* two seeded runs of a profile whose trials differ from one another
C8_Witness ==
    /\ Len(results) = 2
    /\ results[1].seeded /\ results[2].seeded
    /\ prof.volatility > 0 /\ prof.num_simulations >= 2
    /\ results[1].all_simulations[1] # results[1].all_simulations[2]

\* C8 (as claimed): repeated calls of run_retirement_analysis with the same
\* profile return identical results, the source being seeded as the code does.
C8_RepeatedCallsIdentical ==
    \A j \in 1..Len(results), k \in 1..Len(results) :
        Returned(results[j]) = Returned(results[k])

\* the profile is within the contract: start_age <= ss_start_age <= end_age,
\* num_simulations >= 1, no negative rate or amount
WithinContract ==
    /\ prof.start_age <= prof.ss_start_age /\ prof.ss_start_age <= prof.end_age
    /\ prof.num_simulations >= 1
    /\ prof.volatility >= 0 /\ prof.inflation_rate >= 0 /\ prof.mean_return >= 0
    /\ prof.initial_balance >= 0 /\ prof.target_monthly_takehome >= 0
    /\ prof.annual_ss_benefit >= 0

\* a profile within the contract with zero volatility, zero initial balance or
\* a zero target
EdgeCase ==
    /\ WithinContract
    /\ \/ prof.volatility = 0
       \/ prof.initial_balance = 0
       \/ prof.target_monthly_takehome = 0

\* C9: with volatility = 0, initial_balance = 0 or target_monthly_takehome = 0
\* the run never raises (its loops being bounded, raising is the only way it can
\* fail to return), and what it returns holds one balance per age for every
\* trial.
C9_EdgeCasesNeverRaise ==
    EdgeCase =>
        /\ run.pc # "raised"
        /\ \A k \in 1..Len(results) :
              /\ Len(results[k].all_simulations) = prof.num_simulations
              /\ \A t \in 1..prof.num_simulations :
                    Len(results[k].all_simulations[t])
                        = prof.end_age - prof.start_age + 1

\* all three edge cases at once, returned with two trials of two ages or more
C9_Witness ==
    /\ EdgeCase
    /\ prof.volatility = 0 /\ prof.initial_balance = 0
    /\ prof.target_monthly_takehome = 0
    /\ prof.num_simulations = 2 /\ prof.end_age > prof.start_age
    /\ Len(results) >= 1
    /\ results[1].withdrawal_before_ss = 0

\* a base withdrawal after j yearly escalations by inflation_rate
RECURSIVE Escalated(_, _)
Escalated(w, j) ==
    IF j = 0 THEN w * SimScale
    ELSE TimesOnePlus(Escalated(w, j - 1), prof.inflation_rate)

\* at every age the growth balance * mean_return of the first trial exceeds
\* the withdrawal of that age
GrowthExceedsWithdrawal(r) ==
    \A k \in 1..Len(r.years) :
        LET before == IF k = 1 THEN prof.initial_balance * SimScale
                      ELSE r.all_simulations[1][k - 1]
            base == IF r.years[k] < prof.ss_start_age THEN r.withdrawal_before_ss
                    ELSE r.withdrawal_after_ss
        IN  before * prof.mean_return > Escalated(base, k - 1) * RateUnit

\* C10: with volatility = 0 every trial of a run has the same balances, so
\* success_rate is 0 or 100, and it is 100 whenever the yearly growth exceeds
\* the escalated withdrawal at every age.
C10_ZeroVolatilityDeterministic ==
    (WithinContract /\ prof.volatility = 0) =>
        \A k \in 1..Len(results) :
            LET r == results[k]
            IN  /\ \A t \in 1..Len(r.all_simulations) :
                      r.all_simulations[t] = r.all_simulations[1]
                /\ r.success_rate[1] \in {0, 100 * r.success_rate[2]}
                /\ GrowthExceedsWithdrawal(r) =>
                      r.success_rate[1] = 100 * r.success_rate[2]

\* a zero-volatility run of two trials over several ages, with inflation, whose
\* growth exceeds every withdrawal
C10_Witness ==
    /\ WithinContract /\ prof.volatility = 0
    /\ prof.num_simulations = 2 /\ prof.inflation_rate > 0
    /\ prof.end_age > prof.ss_start_age /\ prof.ss_start_age > prof.start_age
    /\ prof.target_monthly_takehome > 0
    /\ Len(results) >= 1
    /\ GrowthExceedsWithdrawal(results[1])
    /\ results[1].success_rate = <<200, 2>>

\* a step of the model is one simulated year of a trial
IsYearStep == run.pc = "for_age" /\ run'.pc = "for_age" /\ run'.i = run.i + 1

\* the balance of the year about to be simulated after its growth
Grown ==
    TimesOnePlus(run.balance,
                 np_random_normal(prof.mean_return, prof.volatility,
                                  NextDeviate(rng)))

\* C15: in every trial both withdrawal tracks are multiplied by
\* (1 + inflation_rate) after every year, whichever was used: the amount
\* subtracted at age a is withdrawal_before_ss * (1 + inflation_rate)^(a - start_age)
\* when a < ss_start_age and withdrawal_after_ss * (1 + inflation_rate)^(a - start_age)
\* when a >= ss_start_age.
C15_BothTracksCompound ==
    [][IsYearStep =>
          LET age == run.years[run.i]
              subtracted == Grown - run'.balance
          IN  /\ age < prof.ss_start_age =>
                    subtracted = Escalated(run.withdrawal_before_ss,
                                           age - prof.start_age)
              /\ age >= prof.ss_start_age =>
                    subtracted = Escalated(run.withdrawal_after_ss,
                                           age - prof.start_age)
              /\ run'.current_withdrawal_before_ss
                    = Escalated(run.withdrawal_before_ss, age - prof.start_age + 1)
              /\ run'.current_withdrawal_after_ss
                    = Escalated(run.withdrawal_after_ss, age - prof.start_age + 1)]_vars

\* the year of ss_start_age, one year after start_age, has been simulated with
\* inflation and no volatility: what was subtracted is the after-SS base
\* escalated once, although that track had not been used before
C15_Witness ==
    /\ run.pc = "for_age" /\ run.i = 3
    /\ prof.inflation_rate > 0 /\ prof.volatility = 0
    /\ run.withdrawal_after_ss > 0
    /\ run.years[2] = prof.ss_start_age
    /\ TimesOnePlus(run.balances[1], prof.mean_return) - run.balances[2]
          = Escalated(run.withdrawal_after_ss, 1)
    /\ Escalated(run.withdrawal_after_ss, 1) > run.withdrawal_after_ss * SimScale

\* C16: every path holds end_age - start_age + 1 balances, one per age from
\* start_age to end_age, each recorded after the year's growth and withdrawal
\* as balance_prev * (1 + r) - withdrawal; no floor: a negative balance is
\* carried unchanged into the next year and never reset to 0.
C16_PathRecordsEveryYear ==
    /\ [](\A k \in 1..Len(results) :
            LET r == results[k]
            IN  /\ Len(r.years) = prof.end_age - prof.start_age + 1
                /\ \A i \in 1..Len(r.years) : r.years[i] = prof.start_age + i - 1
                /\ \A t \in 1..Len(r.all_simulations) :
                      Len(r.all_simulations[t]) = Len(r.years))
    /\ [][IsYearStep =>
            LET withdrawal == IF run.years[run.i] < prof.ss_start_age
                              THEN run.current_withdrawal_before_ss
                              ELSE run.current_withdrawal_after_ss
            IN  /\ run.i > 1 => run.balance = run.balances[run.i - 1]
                /\ run'.balance = Grown - withdrawal
                /\ run'.balances = Append(run.balances, run'.balance)]_vars

\* a returned path of three ages without volatility whose second balance is
\* negative and whose third is that balance grown (further down) less the
\* withdrawal
C16_Witness ==
    /\ Len(results) >= 1 /\ prof.volatility = 0
    /\ LET r == results[1]
           path == r.all_simulations[1]
       IN  /\ Len(path) = 3
           /\ path[2] < 0
           /\ path[3] = TimesOnePlus(path[2], prof.mean_return)
                           - Escalated(r.withdrawal_after_ss, 2)
           /\ path[3] < path[2]

\* C17: the two base withdrawals are solved once, on entry, and no trial
\* modifies them; every trial starts from initial_balance and from the two
\* solved withdrawals, whatever the trials before it did; the success rate and
\* the percentiles are computed only when all num_simulations trials are done.
C17_TrialsShareNothing ==
    /\ [][(run.pc = "idle" /\ run'.pc = "for_sim") =>
            /\ run'.withdrawal_before_ss =
                  calculate_annual_withdrawal_for_takehome(
                      prof.target_monthly_takehome, prof.start_age,
                      prof.ss_start_age, prof.annual_ss_benefit)
            /\ run'.withdrawal_after_ss =
                  calculate_annual_withdrawal_for_takehome(
                      prof.target_monthly_takehome, prof.ss_start_age,
                      prof.ss_start_age, prof.annual_ss_benefit)
            /\ run'.sim = 0 /\ run'.all_simulations = <<>>]_vars
    /\ [][run.pc \in {"for_sim", "for_age"} =>
            /\ run'.withdrawal_before_ss = run.withdrawal_before_ss
            /\ run'.withdrawal_after_ss = run.withdrawal_after_ss]_vars
    /\ []((run.pc = "for_age" /\ run.i = 1) =>
            /\ run.balance = prof.initial_balance * SimScale
            /\ run.current_withdrawal_before_ss = run.withdrawal_before_ss * SimScale
            /\ run.current_withdrawal_after_ss = run.withdrawal_after_ss * SimScale
            /\ run.balances = <<>>)
    /\ [][Len(results') > Len(results) =>
            /\ run.pc = "for_sim" /\ run.sim = prof.num_simulations
            /\ Len(run.all_simulations) = prof.num_simulations
            /\ results'[Len(results')].all_simulations = run.all_simulations
            /\ results'[Len(results')].withdrawal_before_ss = run.withdrawal_before_ss
            /\ results'[Len(results')].withdrawal_after_ss = run.withdrawal_after_ss]_vars

\* the second trial begins after a first one of two years or more that
\* escalated its withdrawals and ended away from the initial balance
C17_Witness ==
    /\ run.pc = "for_age" /\ run.i = 1 /\ run.sim = 1
    /\ prof.inflation_rate > 0 /\ run.withdrawal_before_ss > 0
    /\ Len(run.all_simulations[1]) >= 2
    /\ run.all_simulations[1][Len(run.all_simulations[1])] # run.balance
    /\ run.balance = prof.initial_balance * SimScale
    /\ run.current_withdrawal_before_ss = run.withdrawal_before_ss * SimScale

\* C18: for every age of the projection table the Withdrawal shown is the
\* amount run_retirement_analysis subtracts from the balance at that age (as
\* the table prints it), before ss_start_age and from ss_start_age on.  The
\* table of one execution of the script is held against the trials of the next
\* execution with the same profile, at the year about to be simulated.
C18_TableShowsSubtracted ==
    (table.of >= 1 /\ run.pc = "for_age" /\ run.i <= Len(run.years)) =>
        table.withdrawal[run.i] =
            FormatWhole(IF run.years[run.i] < prof.ss_start_age
                        THEN run.current_withdrawal_before_ss
                        ELSE run.current_withdrawal_after_ss)

(***************************************************************************)
(* Claims about find_maximum_takehome (SpecSearch)                         *)
(***************************************************************************)

\* the probes whose success rate exceeded the target
Exceeding ==
    { j \in 1..Len(search.probed) :
        RateAbove(search.probed[j].success_rate, <<search.target_success_rate, 1>>) }

\* the success rates probed do not increase with the monthly amount
ProbedNonIncreasing ==
    \A j \in 1..Len(search.probed), k \in 1..Len(search.probed) :
        search.probed[j].monthly <= search.probed[k].monthly =>
            ~RateAbove(search.probed[k].success_rate, search.probed[j].success_rate)

\* C19: when the search of find_maximum_takehome ends without a probe within
\* 1.0 of the target, the success rates probed being non-increasing in the
\* monthly amount, and some probe exceeded the target, the monthly amount
\* returned is the largest probed amount whose success rate exceeded the
\* target, returned with the withdrawals, success rate and final balances of
\* that probe.
C19_ReturnsLargestExceeding ==
    (/\ search.pc = "returned" /\ ~FindCond(search)
     /\ ProbedNonIncreasing /\ Exceeding # {}) =>
        \E j \in Exceeding :
            /\ \A k \in Exceeding :
                  search.probed[k].monthly <= search.probed[j].monthly
            /\ search.result = <<search.probed[j].monthly,
                                 search.probed[j].withdrawals,
                                 search.probed[j].success_rate,
                                 search.probed[j].final_balances>>

=============================================================================
